---- MODULE Spec2Model ----
(***************************************************************************)
(* PythoNinja (src/src/extension.ts): a VS Code extension that scans a     *)
(* python document for function definitions, reports every definition that *)
(* is not preceded by the three-line banner comment, and offers a quick    *)
(* fix that inserts the banner and a closing comment.                      *)
(*                                                                         *)
(* A line of text is a sequence of one-character strings; a document is a  *)
(* non-empty sequence of lines (a TextDocument always has lineCount >= 1). *)
(* Line indices are 0-based as in the source.  The 80-character rule       *)
(* literals are shortened to a few characters; every comparison the code   *)
(* makes on them (equality after trim) is kept.                            *)
(***************************************************************************)
EXTENDS Integers, Sequences, FiniteSets, TLC

\* Longest document an edit event may build (lines).
MaxLines == 5

\* The same for a document that is not python: it is never scanned.
MaxPlainLines == 3

(***************************************************************************)
(* Characters and literals                                                 *)
(***************************************************************************)
Whitespace == {" ", "\t"}

\* \w of the regular expression, restricted to the characters in use.
WordChars == {"d", "e", "f", "g", "w", "_"}

DefKeyword == <<"d", "e", "f", " ">>

DecoratorMarker == <<"@">>

\* `# |-----...-----|`
topComment == <<"#", " ", "|", "-", "|">>

\* `# ${functionName}`
functionComment(functionName) == <<"#", " ">> \o functionName

\* `# |-----End of ${functionName} -----|`
bottomComment(functionName) == <<"#", " ", "|", "E", " ">> \o functionName \o <<" ", "|">>

(***************************************************************************)
(* String primitives of the host language                                  *)
(***************************************************************************)
RECURSIVE trimStart(_)
trimStart(text) ==
    IF text # <<>> /\ Head(text) \in Whitespace THEN trimStart(Tail(text)) ELSE text

RECURSIVE trimEnd(_)
trimEnd(text) ==
    IF text # <<>> /\ text[Len(text)] \in Whitespace
    THEN trimEnd(SubSeq(text, 1, Len(text) - 1))
    ELSE text

trim(text) == trimEnd(trimStart(text))

startsWith(text, prefix) ==
    /\ Len(prefix) <= Len(text)
    /\ SubSeq(text, 1, Len(prefix)) = prefix

\* TextLine.firstNonWhitespaceCharacterIndex: the length of the line when
\* the line is all whitespace.
firstNonWhitespaceCharacterIndex(text) == Len(text) - Len(trimStart(text))

RECURSIVE wordRun(_)
wordRun(text) ==
    IF text # <<>> /\ Head(text) \in WordChars
    THEN <<Head(text)>> \o wordRun(Tail(text))
    ELSE <<>>

\* text.match(/^def (\w+)/)?.[1]; <<>> stands for "no match" (a captured
\* name is never empty).
matchDef(text) ==
    IF startsWith(text, DefKeyword)
    THEN wordRun(SubSeq(text, Len(DefKeyword) + 1, Len(text)))
    ELSE <<>>

(***************************************************************************)
(* TextDocument                                                            *)
(***************************************************************************)
lineCount(document) == Len(document)

lineAt(document, line) == document[line + 1]

(***************************************************************************)
(* findFunctionStartLine (extension.ts:129-141)                            *)
(***************************************************************************)
RECURSIVE findFunctionStartLineFrom(_, _, _)
findFunctionStartLineFrom(document, startLine, i) ==
    IF i >= lineCount(document) THEN startLine
    ELSE LET line == trim(lineAt(document, i)) IN
         IF startsWith(line, DefKeyword) THEN i
         ELSE IF ~startsWith(line, DecoratorMarker) /\ line # <<>> THEN startLine
         ELSE findFunctionStartLineFrom(document, startLine, i + 1)

\* Variant that stops at a blank line as at any other non-decorator line.
RECURSIVE findFunctionStartLineFrom_noBlank(_, _, _)
findFunctionStartLineFrom_noBlank(document, startLine, i) ==
    IF i >= lineCount(document) THEN startLine
    ELSE LET line == trim(lineAt(document, i)) IN
         IF startsWith(line, DefKeyword) THEN i
         ELSE IF ~startsWith(line, DecoratorMarker) THEN startLine
         ELSE findFunctionStartLineFrom_noBlank(document, startLine, i + 1)

findFunctionStartLine_noBlank(document, startLine) ==
    findFunctionStartLineFrom_noBlank(document, startLine, startLine)

findFunctionStartLine(document, startLine) ==
    findFunctionStartLineFrom(document, startLine, startLine)

\* The last index the loop of findFunctionStartLine reads when it starts at
\* i: the index at which it returns, or the last line when it runs off.
RECURSIVE findFunctionStartLineStop(_, _)
findFunctionStartLineStop(document, i) ==
    IF i >= lineCount(document) THEN i - 1
    ELSE LET line == trim(lineAt(document, i)) IN
         IF startsWith(line, DefKeyword) THEN i
         ELSE IF ~startsWith(line, DecoratorMarker) /\ line # <<>> THEN i
         ELSE findFunctionStartLineStop(document, i + 1)

\* The line indices findFunctionStartLine passes to lineAt.
findFunctionStartLineReads(document, startLine) ==
    startLine .. findFunctionStartLineStop(document, startLine)

(***************************************************************************)
(* findEndOfFunction (extension.ts:144-165)                                *)
(***************************************************************************)
RECURSIVE findEndOfFunctionFrom(_, _, _)
findEndOfFunctionFrom(document, startIndentation, i) ==
    IF i >= lineCount(document) THEN lineCount(document) - 1
    ELSE LET lineText == trim(lineAt(document, i))
             currentIndentation == firstNonWhitespaceCharacterIndex(lineAt(document, i))
         IN
         IF lineText = <<>> THEN findEndOfFunctionFrom(document, startIndentation, i + 1)
         ELSE IF currentIndentation < startIndentation \/ startsWith(lineText, DefKeyword)
              THEN i - 1
              ELSE findEndOfFunctionFrom(document, startIndentation, i + 1)

\* Variant that ends the block at a line of equal indentation.
RECURSIVE findEndOfFunctionFrom_lte(_, _, _)
findEndOfFunctionFrom_lte(document, startIndentation, i) ==
    IF i >= lineCount(document) THEN lineCount(document) - 1
    ELSE LET lineText == trim(lineAt(document, i))
             currentIndentation == firstNonWhitespaceCharacterIndex(lineAt(document, i))
         IN
         IF lineText = <<>> THEN findEndOfFunctionFrom_lte(document, startIndentation, i + 1)
         ELSE IF currentIndentation <= startIndentation \/ startsWith(lineText, DefKeyword)
              THEN i - 1
              ELSE findEndOfFunctionFrom_lte(document, startIndentation, i + 1)

findEndOfFunction_lte(document, startLine) ==
    findEndOfFunctionFrom_lte(
        document, firstNonWhitespaceCharacterIndex(lineAt(document, startLine)), startLine + 1)

findEndOfFunction(document, startLine) ==
    findEndOfFunctionFrom(
        document, firstNonWhitespaceCharacterIndex(lineAt(document, startLine)), startLine + 1)

\* The last index the loop of findEndOfFunction reads when it is at i.
RECURSIVE findEndOfFunctionStop(_, _, _)
findEndOfFunctionStop(document, startIndentation, i) ==
    IF i >= lineCount(document) THEN i - 1
    ELSE LET lineText == trim(lineAt(document, i))
             currentIndentation == firstNonWhitespaceCharacterIndex(lineAt(document, i))
         IN
         IF lineText # <<>>
            /\ (currentIndentation < startIndentation \/ startsWith(lineText, DefKeyword))
         THEN i
         ELSE findEndOfFunctionStop(document, startIndentation, i + 1)

\* The line indices findEndOfFunction passes to lineAt: startLine for its
\* indentation (before the loop's bound is tested), then the loop's.
findEndOfFunctionReads(document, startLine) ==
    {startLine} \cup
    IF startLine \in 0 .. (lineCount(document) - 1)
    THEN (startLine + 1) ..
            findEndOfFunctionStop(
                document, firstNonWhitespaceCharacterIndex(lineAt(document, startLine)),
                startLine + 1)
    ELSE {}

(***************************************************************************)
(* hasValidFormat (extension.ts:101-126)                                   *)
(***************************************************************************)
\* Variant that does not compare the rule line directly above the def line.
hasValidFormat_noMiddle(document, lineNumber, functionName) ==
    LET functionStartLine == findFunctionStartLine(document, lineNumber) IN
    IF functionStartLine < 3 THEN FALSE
    ELSE /\ trim(lineAt(document, functionStartLine - 3)) = topComment
         /\ trim(lineAt(document, functionStartLine - 2)) = functionComment(functionName)
         /\ startsWith(trim(lineAt(document, functionStartLine)), DefKeyword \o functionName)

hasValidFormat(document, lineNumber, functionName) ==
    LET functionStartLine == findFunctionStartLine(document, lineNumber) IN
    IF functionStartLine < 3 THEN FALSE
    ELSE LET topBoundaryLine == trim(lineAt(document, functionStartLine - 3))
             functionCommentLine == trim(lineAt(document, functionStartLine - 2))
             middleBoundaryLine == trim(lineAt(document, functionStartLine - 1))
             functionDefinitionLine == trim(lineAt(document, functionStartLine))
             lastFunctionLine == findEndOfFunction(document, functionStartLine)
             \* read, but the comparison with it is commented out (line 124)
             bottomBoundaryLine ==
                 IF lastFunctionLine + 1 < lineCount(document)
                 THEN trim(lineAt(document, lastFunctionLine + 1)) ELSE <<>>
         IN
         /\ topBoundaryLine = topComment
         /\ functionCommentLine = functionComment(functionName)
         /\ middleBoundaryLine = topComment
         /\ startsWith(functionDefinitionLine, DefKeyword \o functionName)

\* Variant whose room check is off by one.
hasValidFormatReads_offByOne(document, lineNumber) ==
    LET functionStartLine == findFunctionStartLine(document, lineNumber) IN
    findFunctionStartLineReads(document, lineNumber) \cup
    IF functionStartLine < 2 THEN {}
    ELSE (functionStartLine - 3) .. functionStartLine

\* The line indices hasValidFormat passes to lineAt, the calls it makes
\* included; the line after the block is read only when it exists.
hasValidFormatReads(document, lineNumber) ==
    LET functionStartLine == findFunctionStartLine(document, lineNumber) IN
    findFunctionStartLineReads(document, lineNumber) \cup
    IF functionStartLine < 3 THEN {}
    ELSE LET lastFunctionLine == findEndOfFunction(document, functionStartLine) IN
         ((functionStartLine - 3) .. functionStartLine)
         \cup findEndOfFunctionReads(document, functionStartLine)
         \cup (IF lastFunctionLine + 1 < lineCount(document)
               THEN {lastFunctionLine + 1} ELSE {})

(***************************************************************************)
(* updateDiagnostics (extension.ts:72-99)                                  *)
(***************************************************************************)
\* new vscode.Diagnostic(range, message, Warning) with code 'functionFormat';
\* the range is (line, 0)-(line, endCharacter), the message carries the name.
Diagnostic(line, endCharacter, functionName) ==
    [line |-> line, endCharacter |-> endCharacter,
     functionName |-> functionName, code |-> "functionFormat"]

\* Variant that anchors the diagnostic at the loop index.
diagnosticsAt_loopIndex(document, i) ==
    LET functionStartLine == findFunctionStartLine(document, i)
        functionName == matchDef(lineAt(document, functionStartLine))
    IN
    IF functionName # <<>> /\ ~hasValidFormat(document, functionStartLine, functionName)
    THEN << Diagnostic(i, Len(lineAt(document, i)), functionName) >>
    ELSE <<>>

\* One iteration of the loop (lines 80-95): what it pushes.
diagnosticsAt(document, i) ==
    LET functionStartLine == findFunctionStartLine(document, i)
        functionName == matchDef(lineAt(document, functionStartLine))
    IN
    IF functionName # <<>> /\ ~hasValidFormat(document, functionStartLine, functionName)
    THEN << Diagnostic(functionStartLine,
                       Len(lineAt(document, functionStartLine)), functionName) >>
    ELSE <<>>

\* The loop over i = 0 .. lineCount-1 (lines 77-96).
RECURSIVE collectDiagnosticsFrom(_, _)
collectDiagnosticsFrom(document, i) ==
    IF i >= lineCount(document) THEN <<>>
    ELSE diagnosticsAt(document, i) \o collectDiagnosticsFrom(document, i + 1)

collectDiagnostics(document) == collectDiagnosticsFrom(document, 0)

\* Variant that adds to the stored entry.
collectionSet_merge(stored, diagnostics) == stored \o diagnostics

\* collection.set(document.uri, diagnostics): the entry of the uri is replaced.
collectionSet(stored, diagnostics) == diagnostics

\* The handler: the new entry of the document in the collection.
updateDiagnostics(language, document, stored) ==
    IF language # "python" THEN stored
    ELSE collectionSet(stored, collectDiagnostics(document))

\* The line indices one scan passes to lineAt.
updateDiagnosticsReads(language, document) ==
    IF language # "python" THEN {}
    ELSE UNION { LET functionStartLine == findFunctionStartLine(document, i)
                     functionName == matchDef(lineAt(document, functionStartLine))
                 IN findFunctionStartLineReads(document, i)
                    \cup {functionStartLine}
                    \cup (IF functionName # <<>>
                          THEN hasValidFormatReads(document, functionStartLine)
                          ELSE {})
                 : i \in 0 .. (lineCount(document) - 1) }

(***************************************************************************)
(* FunctionFormatCodeActionProvider.provideCodeActions (extension.ts:28-69) *)
(***************************************************************************)
\* quickFix.edit.insert(uri, new Position(line, character), text); the text
\* is the sequence of its newline-terminated lines.
Insert(line, character, text) == [line |-> line, character |-> character, text |-> text]

\* Variant that inserts the opening banner without its lower rule.
fixDiagnostic_shortBanner(document, diagnostic) ==
    LET lineNumber == diagnostic.line
        functionStartLine == findFunctionStartLine(document, lineNumber)
        functionName == matchDef(lineAt(document, functionStartLine))
    IN
    IF functionName = <<>> THEN <<>>
    ELSE << Insert(functionStartLine, 0, <<topComment, functionComment(functionName)>>),
            Insert(findEndOfFunction(document, lineNumber) + 1, 0,
                   << <<>>, bottomComment(functionName) >>) >>

\* The body of the forEach (lines 39-66): the insertions for one diagnostic.
fixDiagnostic(document, diagnostic) ==
    LET lineNumber == diagnostic.line
        functionStartLine == findFunctionStartLine(document, lineNumber)
        functionName == matchDef(lineAt(document, functionStartLine))
    IN
    IF functionName = <<>> THEN <<>>
    ELSE LET lastFunctionLine == findEndOfFunction(document, lineNumber) IN
         << Insert(functionStartLine, 0,
                   <<topComment, functionComment(functionName), topComment>>),
            Insert(lastFunctionLine + 1, 0, << <<>>, bottomComment(functionName) >>) >>

RECURSIVE fixAll(_, _)
fixAll(document, diagnostics) ==
    IF diagnostics = <<>> THEN <<>>
    ELSE fixDiagnostic(document, Head(diagnostics)) \o fixAll(document, Tail(diagnostics))

\* The returned code actions: none, or the one quick fix, given as its edit.
provideCodeActions(document, contextDiagnostics) ==
    LET diagnostics == SelectSeq(contextDiagnostics, LAMBDA d : d.code = "functionFormat") IN
    IF Len(diagnostics) = 0 THEN <<>>
    ELSE << fixAll(document, diagnostics) >>

\* The line indices provideCodeActions passes to lineAt.
provideCodeActionsReads(document, contextDiagnostics) ==
    UNION { LET lineNumber == contextDiagnostics[k].line
                functionStartLine == findFunctionStartLine(document, lineNumber)
            IN findFunctionStartLineReads(document, lineNumber)
               \cup {functionStartLine}
               \cup (IF matchDef(lineAt(document, functionStartLine)) # <<>>
                     THEN findEndOfFunctionReads(document, lineNumber)
                     ELSE {})
            : k \in 1 .. Len(contextDiagnostics) }

(***************************************************************************)
(* Applying the quick fix's WorkspaceEdit (insertions of lines 50-64).     *)
(* All insertions are positioned against the same snapshot and applied     *)
(* together; insertions at one position keep the order in which they were  *)
(* added; a position past the last line is moved to the end of the last    *)
(* line.  The provider only produces column 0, so after validation an      *)
(* insertion sits at column 0 of a line or at the end of the last line.    *)
(***************************************************************************)
validatePosition(document, insertion) ==
    IF insertion.line >= lineCount(document)
    THEN [line |-> lineCount(document) - 1,
          character |-> Len(lineAt(document, lineCount(document) - 1))]
    ELSE [line |-> insertion.line, character |-> insertion.character]

\* The text inserted at one position: the insertions there, in edit order.
RECURSIVE textAt(_, _, _, _)
textAt(document, edit, line, character) ==
    IF edit = <<>> THEN <<>>
    ELSE (IF validatePosition(document, Head(edit)) = [line |-> line, character |-> character]
          THEN Head(edit).text ELSE <<>>)
         \o textAt(document, Tail(edit), line, character)

\* Newline-terminated lines `inserted` put into `text` at column `character`.
spliceLine(text, character, inserted) ==
    IF inserted = <<>> THEN <<text>>
    ELSE << SubSeq(text, 1, character) \o Head(inserted) >>
         \o Tail(inserted)
         \o << SubSeq(text, character + 1, Len(text)) >>

editedLine(document, edit, line) ==
    LET text == lineAt(document, line) IN
    IF Len(text) = 0 THEN spliceLine(text, 0, textAt(document, edit, line, 0))
    ELSE textAt(document, edit, line, 0)
         \o spliceLine(text, Len(text), textAt(document, edit, line, Len(text)))

RECURSIVE applyEditFrom(_, _, _)
applyEditFrom(document, edit, line) ==
    IF line >= lineCount(document) THEN <<>>
    ELSE editedLine(document, edit, line) \o applyEditFrom(document, edit, line + 1)

applyEdit(document, edit) == applyEditFrom(document, edit, 0)

\* Where line `line` of the snapshot is after the edit: every line inserted
\* at column 0 of it or of a line above pushes it down.
RECURSIVE shiftOf(_, _, _)
shiftOf(document, edit, line) ==
    IF edit = <<>> THEN 0
    ELSE LET at == validatePosition(document, Head(edit)) IN
         (IF at.character = 0 /\ at.line <= line THEN Len(Head(edit).text) ELSE 0)
         + shiftOf(document, Tail(edit), line)

lineAfterEdit(document, edit, line) == line + shiftOf(document, edit, line)

(***************************************************************************)
(* The extension in its host                                               *)
(***************************************************************************)
VARIABLES
    languageId,   \* document.languageId
    document,     \* the text of the document, as the host holds it
    diagnostics,  \* diagnosticCollection's entry for document.uri
    delivered,    \* snapshot of the latest open/change event; <<>> before any
    lastEdit      \* the quick fix the latest change applied, if it applied one:
                  \* the snapshot and context.diagnostics given to
                  \* provideCodeActions and the edit it returned

vars == <<languageId, document, diagnostics, delivered, lastEdit>>

blankLine == <<>>
nameLine == functionComment(<<"f">>)
defLine == DefKeyword \o <<"f", "(">>
nestedDefLine == <<" ">> \o DefKeyword \o <<"g", "(">>
decoratorLine == DecoratorMarker \o <<"w">>

\* The lines the user types one at a time.
Lines == {blankLine, defLine, nestedDefLine, decoratorLine}

\* The blocks the user pastes: the banner of f, whole or short of one line.
Blocks ==
    { <<topComment, nameLine, topComment>>,
      <<nameLine, topComment>>,
      <<topComment, topComment>>,
      <<topComment, nameLine>> }

NoEdit == [snapshot |-> <<>>, context |-> <<>>, edit |-> <<>>]

\* activate (lines 3-24): the active editor's document, if any, is scanned.
Init ==
    /\ languageId \in {"python", "plaintext"}
    /\ document \in { <<text>> : text \in Lines }
    /\ \E activeTextEditor \in BOOLEAN :
        diagnostics = IF activeTextEditor
                      THEN updateDiagnostics(languageId, document, <<>>)
                      ELSE <<>>
    /\ delivered = <<>>
    /\ lastEdit = NoEdit

\* onDidOpenTextDocument (lines 15-17).
OnDidOpenTextDocument ==
    /\ delivered' = document
    /\ diagnostics' = updateDiagnostics(languageId, document, diagnostics)
    /\ UNCHANGED <<languageId, document, lastEdit>>

\* onDidChangeTextDocument (lines 11-13) for the text `text` the edit left.
OnDidChangeTextDocument(text) ==
    /\ document' = text
    /\ delivered' = text
    /\ diagnostics' = updateDiagnostics(languageId, text, diagnostics)
    /\ UNCHANGED languageId

\* The longest text the user may edit.
EditLimit == IF languageId = "python" THEN MaxLines ELSE MaxPlainLines

\* The user types a line at the end.
AppendLine ==
    /\ lineCount(document) < EditLimit
    /\ \E text \in Lines : OnDidChangeTextDocument(Append(document, text))
    /\ lastEdit' = NoEdit

\* The user pastes a block at the end.
PasteBlock ==
    /\ \E block \in Blocks :
        /\ lineCount(document) + Len(block) <= EditLimit
        /\ OnDidChangeTextDocument(document \o block)
    /\ lastEdit' = NoEdit

\* The user deletes the whole text: one empty line is left.
ClearDocument ==
    /\ document # <<blankLine>>
    /\ OnDidChangeTextDocument(<<blankLine>>)
    /\ lastEdit' = NoEdit

\* The ranges the host asks code actions for: one line, or the whole text.
Ranges(text) ==
    { <<line, line>> : line \in 0 .. (lineCount(text) - 1) }
        \cup { <<0, lineCount(text) - 1>> }

\* The provider is registered for 'python' (line 19).  The host calls it
\* with the stored diagnostics that lie in the range; when it returns the
\* quick fix and the user picks it, the host applies the edit to the
\* snapshot it was computed for and reports the change.
QuickFix ==
    /\ languageId = "python"
    /\ lineCount(document) <= MaxLines
    /\ \E range \in Ranges(document) :
        LET contextDiagnostics ==
                SelectSeq(diagnostics, LAMBDA d : d.line \in range[1] .. range[2])
            codeActions == provideCodeActions(document, contextDiagnostics)
        IN /\ codeActions # <<>>
           /\ OnDidChangeTextDocument(applyEdit(document, codeActions[1]))
           /\ lastEdit' = [snapshot |-> document, context |-> contextDiagnostics,
                           edit |-> codeActions[1]]

Next ==
    \/ OnDidOpenTextDocument
    \/ AppendLine
    \/ PasteBlock
    \/ ClearDocument
    \/ QuickFix

Spec == Init /\ [][Next]_vars

(***************************************************************************)
(* Properties                                                              *)
(***************************************************************************)
LineIndices(text) == 0 .. (lineCount(text) - 1)

\* Function names a caller may pass.
Names == { <<"f">>, <<"g">>, <<"f", "g">> }

IsDefLine(text, line) == startsWith(trim(lineAt(text, line)), DefKeyword)

IsBlankOrDecorator(text, line) ==
    \/ trim(lineAt(text, line)) = <<>>
    \/ startsWith(trim(lineAt(text, line)), DecoratorMarker)

Min(S) == CHOOSE m \in S : \A n \in S : m <= n

QuickFixApplied == lastEdit.snapshot # <<>>

\* C1: the violation list of one scan holds at most one violation per
\* function start line: no two entries have the same start line.
C1_OneViolationPerStartLine ==
    \A j \in 1 .. Len(diagnostics) : \A k \in 1 .. Len(diagnostics) :
        j # k => diagnostics[j].line # diagnostics[k].line

\* C2: after the insertions of a quick fix are applied to the snapshot they
\* were computed for and the result is rescanned, no violation is reported
\* for any function the fix was generated for; the function is the def line
\* of the violation, found in the new text below the lines inserted above it.
C2_FixRoundTrip ==
    QuickFixApplied =>
        \A k \in 1 .. Len(lastEdit.context) :
            LET was == lastEdit.context[k].line
                now == lineAfterEdit(lastEdit.snapshot, lastEdit.edit, was)
            IN /\ now \in LineIndices(document)
               /\ lineAt(document, now) = lineAt(lastEdit.snapshot, was)
               /\ \A j \in 1 .. Len(diagnostics) : diagnostics[j].line # now

\* A quick fix was applied for a function that had a decorator or a blank
\* line above it (so it was reported more than once), and the rescan found
\* nothing.
C2_Witness ==
    /\ QuickFixApplied
    /\ Len(lastEdit.context) >= 2
    /\ lastEdit.context[1].line >= 1
    /\ delivered = document
    /\ diagnostics = <<>>

C4_ScanComplete ==
    (languageId = "python" /\ delivered = document) =>
        \A s \in LineIndices(document) :
            LET name == matchDef(trim(lineAt(document, s))) IN
            (name # <<>> /\ ~hasValidFormat(document, s, name)) =>
                \E k \in 1 .. Len(diagnostics) :
                    /\ diagnostics[k].line = s
                    /\ diagnostics[k].functionName = name

\* C5: findFunctionStartLine(doc, fromLine) is the first def line at or
\* after fromLine when only blank and decorator lines precede it from
\* fromLine on, and fromLine in every other case.
C5_FindFunctionStartLine ==
    \A fromLine \in 0 .. lineCount(document) :
        LET defs == { i \in fromLine .. (lineCount(document) - 1) : IsDefLine(document, i) }
            result == findFunctionStartLine(document, fromLine)
        IN IF defs # {} /\ \A j \in fromLine .. (Min(defs) - 1) : IsBlankOrDecorator(document, j)
           THEN result = Min(defs)
           ELSE result = fromLine

\* A scanned document in which the search passes a decorator and a blank
\* line to reach a def line, and in which another search is interrupted.
C5_Witness ==
    /\ delivered = document
    /\ languageId = "python"
    /\ \E fromLine \in LineIndices(document) :
        /\ findFunctionStartLine(document, fromLine) >= fromLine + 2
        /\ \E j \in LineIndices(document) : lineAt(document, j) = blankLine
    /\ \E fromLine \in LineIndices(document) :
        /\ lineAt(document, fromLine) = decoratorLine
        /\ findFunctionStartLine(document, fromLine) = fromLine
        /\ \E i \in (fromLine + 1) .. (lineCount(document) - 1) : IsDefLine(document, i)

\* C6: findEndOfFunction(doc, startLine) is i-1 for the first i > startLine
\* whose line is not blank and is indented less than startLine or begins
\* with "def "; without such a line it is the last line index.
C6_FindEndOfFunction ==
    \A startLine \in LineIndices(document) :
        LET indent(i) == Len(document[i + 1]) - Len(trimStart(document[i + 1]))
            enders == { i \in (startLine + 1) .. (lineCount(document) - 1) :
                          /\ trim(document[i + 1]) # <<>>
                          /\ \/ indent(i) < indent(startLine)
                             \/ IsDefLine(document, i) }
            result == findEndOfFunction(document, startLine)
        IN IF enders # {} THEN result = Min(enders) - 1
           ELSE result = lineCount(document) - 1

\* A quick fix put its closing comment before a later line of the snapshot,
\* and the text now holds an indented def line ended by a dedent and a def
\* line whose block runs to the last line.
C6_Witness ==
    /\ QuickFixApplied
    /\ \E k \in 1 .. Len(lastEdit.context) :
        findEndOfFunction(lastEdit.snapshot, lastEdit.context[k].line) + 1
            < lineCount(lastEdit.snapshot)
    /\ \E s \in LineIndices(document) :
        /\ lineAt(document, s) = nestedDefLine
        /\ s + 1 < lineCount(document)
        /\ ~IsDefLine(document, s + 1)
        /\ findEndOfFunction(document, s) = s
    /\ \E s \in LineIndices(document) :
        /\ lineAt(document, s) = defLine
        /\ s + 1 < lineCount(document)
        /\ findEndOfFunction(document, s) = lineCount(document) - 1

\* C7: every stored violation is at a line whose trimmed text begins with
\* "def ", and names the identifier on that line.
C7_ViolationsAtDefLines ==
    \A k \in 1 .. Len(diagnostics) :
        LET d == diagnostics[k] IN
        /\ d.line \in LineIndices(document)
        /\ IsDefLine(document, d.line)
        /\ d.functionName # <<>>
        /\ d.functionName = wordRun(SubSeq(trim(lineAt(document, d.line)), 5,
                                           Len(trim(lineAt(document, d.line)))))

\* A violation at a def line that has a decorator and a blank line above it.
C7_Witness ==
    \E k \in 1 .. Len(diagnostics) :
        /\ diagnostics[k].line >= 2
        /\ lineAt(document, diagnostics[k].line - 1) = blankLine
        /\ lineAt(document, diagnostics[k].line - 2) = decoratorLine

\* C8: after an open or change event for a python document the stored
\* diagnostics are exactly the scan of the snapshot that event delivered.
C8_StoredIsLatestScan ==
    (languageId = "python" /\ delivered # <<>>) =>
        /\ delivered = document
        /\ diagnostics = collectDiagnostics(delivered)

\* The snapshot before the latest change had violations; the scan of the
\* changed text has none, and none is stored.
C8_Witness ==
    /\ QuickFixApplied
    /\ lastEdit.context # <<>>
    /\ delivered = document
    /\ collectDiagnostics(lastEdit.snapshot) # <<>>
    /\ diagnostics = <<>>

\* C9: every line index read by a scan, by the banner check and the
\* boundary searches at any line, and by the fix generation for violations
\* of the scanned snapshot, is a line of the document read.
C9_LineReadsInRange ==
    /\ updateDiagnosticsReads(languageId, document) \subseteq LineIndices(document)
    /\ \A line \in LineIndices(document) :
        /\ findEndOfFunctionReads(document, line) \subseteq LineIndices(document)
        /\ hasValidFormatReads(document, line) \subseteq LineIndices(document)
    /\ QuickFixApplied =>
        provideCodeActionsReads(lastEdit.snapshot, lastEdit.context)
            \subseteq LineIndices(lastEdit.snapshot)

\* A one-line document was fixed: the scan and the fix read its only line,
\* and the rescan read the banner lines above the def line.
C9_Witness ==
    /\ QuickFixApplied
    /\ lineCount(lastEdit.snapshot) = 1
    /\ provideCodeActionsReads(lastEdit.snapshot, lastEdit.context) = {0}
    /\ delivered = document
    /\ {0, 1, 2, 3} \subseteq updateDiagnosticsReads(languageId, document)

\* C10: a function that passes the banner check in the snapshot still
\* passes it after a quick fix for other functions is applied.
C10_FixKeepsOthersValid ==
    QuickFixApplied =>
        \A g \in LineIndices(lastEdit.snapshot) :
            LET name == matchDef(lineAt(lastEdit.snapshot, g)) IN
            (name # <<>> /\ hasValidFormat(lastEdit.snapshot, g, name)) =>
                hasValidFormat(document,
                               lineAfterEdit(lastEdit.snapshot, lastEdit.edit, g), name)

====
